---- MODULE Spec2Model ----
(***************************************************************************)
(* Model of spotifysort's reordering pass, sort_playlists (src/playlist.c):*)
(* the scan that builds the folder tree, sort_list / merge_sort / merge,   *)
(* flatten_list, and the move loop with recalculate_indexes.               *)
(*                                                                         *)
(* Arrays are functions on 0..n-1, as in C.  A node is addressed by the    *)
(* container index it was created for; NULL is the null pointer.           *)
(***************************************************************************)
EXTENDS Integers, Sequences, FiniteSets, TLC

\* Largest container explored by Spec.
MaxEntries == 4
\* Largest all-playlist container explored by SpecPerm.
MaxItems == 4
\* The runs of the program explored: a first one and one more on its result.
Passes == {1, 2}

NULL == -1
\* end_index of a freshly created playlist_item.
NoEndIndex == -1

\* Names are byte strings: "B", "a", "ab".
NameB == <<66>>
NameA == <<97>>
NameAB == <<97, 98>>
Names == {NameB, NameA, NameAB}

\* A single-letter name, "a" + k.
Letter(k) == <<97 + k>>

\* Contents of the bytes malloc returns and nobody wrote: negative, a valid
\* index, an index past the end.
GarbageVals == {-1, 0, MaxEntries + 1}

VARIABLES
    container,      \* the playlist container: array of entries, mutated by moves
    moves,          \* calls made to the move primitive in this pass, <<from, to>>
    pass,           \* which run of the program this is
    pc,             \* position inside sort_playlists
    i,              \* loop counter of the scan loop and of the move loop
    num_playlists,
    not_loaded,
    items, parent, previous,   \* node pointers of sort_playlists
    nodes,          \* the heap of nodes: address -> node
    reorder         \* the malloc'ed int array

vars == <<container, moves, pass, pc, i, num_playlists, not_loaded,
          items, parent, previous, nodes, reorder>>

----------------------------------------------------------------------------
(* The container *)

Playlist(n, l) == [type |-> "PLAYLIST", name |-> n, loaded |-> l]
StartFolder(n) == [type |-> "START_FOLDER", name |-> n, loaded |-> TRUE]
EndFolder == [type |-> "END_FOLDER", name |-> <<>>, loaded |-> TRUE]
Placeholder == [type |-> "PLACEHOLDER", name |-> <<>>, loaded |-> TRUE]

EntrySet ==
    {Playlist(n, TRUE) : n \in Names} \cup {Playlist(NameA, FALSE)}
        \cup {StartFolder(n) : n \in Names} \cup {EndFolder, Placeholder}

\* Each entry remembers in id the position it has when the pass starts.
Numbered(c) ==
    [k \in DOMAIN c |-> [id |-> k, type |-> c[k].type, name |-> c[k].name,
                         loaded |-> c[k].loaded]]

Containers == UNION {[0..(n - 1) -> EntrySet] : n \in 0..MaxEntries}

\* Containers of loaded playlists with pairwise different names.
Injections(n) ==
    {f \in [0..(n - 1) -> 0..(n - 1)] : \A a, b \in 0..(n - 1) : f[a] = f[b] => a = b}

PermContainers ==
    UNION {{[k \in 0..(n - 1) |-> Playlist(Letter(f[k]), TRUE)] : f \in Injections(n)}
              : n \in 0..MaxItems}

----------------------------------------------------------------------------
(* Node operations *)

create_playlist_item(index, name) ==
    [index |-> index, end_index |-> NoEndIndex, name |-> name]

create_node(h, addr, prev, par, item) ==
    LET h1 == (addr :> [next |-> NULL, parent |-> par, children |-> NULL,
                        item |-> item]) @@ h
        h2 == IF prev # NULL THEN [h1 EXCEPT ![prev].next = addr] ELSE h1
    IN  IF par # NULL /\ h2[par].children = NULL
        THEN [h2 EXCEPT ![par].children = addr]
        ELSE h2

----------------------------------------------------------------------------
(* Merge sort *)

\* The byte of string s at 1-based offset k, 0 being the terminator.
ByteAt(s, k) == IF k <= Len(s) THEN s[k] ELSE 0

RECURSIVE strcmp_from(_, _, _)
strcmp_from(a, b, k) ==
    LET ca == ByteAt(a, k)
        cb == ByteAt(b, k)
    IN  IF ca # cb THEN ca - cb
        ELSE IF ca = 0 THEN 0
        ELSE strcmp_from(a, b, k + 1)

strcmp(a, b) == strcmp_from(a, b, 1)

\* The test of merge with the comparison turned round.
takes_head_one_reversed(name_one, name_two) == strcmp(name_one, name_two) > 0

\* The test of merge: take the head of the first run.
takes_head_one(name_one, name_two) == strcmp(name_one, name_two) < 0

RECURSIVE merge(_, _, _)
merge(h, head_one, head_two) ==
    IF head_one = NULL THEN [h |-> h, head |-> head_two]
    ELSE IF head_two = NULL THEN [h |-> h, head |-> head_one]
    ELSE IF takes_head_one(h[head_one].item.name, h[head_two].item.name)
    THEN LET r == merge(h, h[head_one].next, head_two)
         IN  [h |-> [r.h EXCEPT ![head_one].next = r.head], head |-> head_one]
    ELSE LET r == merge(h, head_one, h[head_two].next)
         IN  [h |-> [r.h EXCEPT ![head_two].next = r.head], head |-> head_two]

\* The while loop of merge_sort: the node after which the list is cut.
RECURSIVE split_point(_, _, _)
split_point(h, head, head_two) ==
    IF head_two # NULL /\ h[head_two].next # NULL
    THEN LET nh == h[head].next
         IN  split_point(h, nh, h[h[nh].next].next)
    ELSE head

RECURSIVE merge_sort(_, _)
merge_sort(h, head) ==
    IF head = NULL \/ h[head].next = NULL THEN [h |-> h, head |-> head]
    ELSE LET cut == split_point(h, head, h[head].next)
             head_two == h[cut].next
             h1 == [h EXCEPT ![cut].next = NULL]
             r1 == merge_sort(h1, head)
             r2 == merge_sort(r1.h, head_two)
         IN  merge(r2.h, r1.head, r2.head)

RECURSIVE sort_list(_, _)
RECURSIVE sort_children(_, _)
\* The for loop of sort_list: sort the children of n and of its successors.
sort_children(h, n) ==
    IF n = NULL THEN h
    ELSE LET h1 == IF h[n].children # NULL
                   THEN LET r == sort_list(h, h[n].children)
                        IN  [r.h EXCEPT ![n].children = r.head]
                   ELSE h
         IN  sort_children(h1, h1[n].next)

sort_list(h, head) == merge_sort(sort_children(h, head), head)

----------------------------------------------------------------------------
(* Flatten for reordering *)

\* The values _flatten_list stores, in the order of idx.
RECURSIVE flatten_writes(_, _)
flatten_writes(h, head) ==
    <<h[head].item.index>>
        \o (IF h[head].children # NULL
            THEN flatten_writes(h, h[head].children) \o <<h[head].item.end_index>>
            ELSE <<>>)
        \o (IF h[head].next # NULL THEN flatten_writes(h, h[head].next) ELSE <<>>)

\* reorder after malloc and flatten_list: the stores that fall inside the
\* array, and what malloc left in the rest.
flatten_list(h, head, size, garbage) ==
    LET w == flatten_writes(h, head)
    IN  [k \in 0..(size - 1) |-> IF k < Len(w) THEN w[k + 1] ELSE garbage[k]]

\* recalculate_indexes with the loop stopping one element early.
recalculate_indexes_short(arr, size, moved) ==
    LET original_index == arr[moved]
    IN  [k \in DOMAIN arr |->
            IF k >= moved /\ k < size - 1 /\ arr[k] < original_index
            THEN arr[k] + 1
            ELSE arr[k]]

recalculate_indexes(arr, size, moved) ==
    LET original_index == arr[moved]
    IN  [k \in DOMAIN arr |->
            IF k >= moved /\ k < size /\ arr[k] < original_index
            THEN arr[k] + 1
            ELSE arr[k]]

----------------------------------------------------------------------------
(* The move primitive *)

move_playlist(list, size, from_index, to_index) ==
    [k \in DOMAIN list |->
        IF k = to_index THEN list[from_index]
        ELSE IF from_index < to_index /\ k >= from_index /\ k < to_index
        THEN list[k + 1]
        ELSE IF from_index > to_index /\ k > to_index /\ k <= from_index
        THEN list[k - 1]
        ELSE list[k]]

\* The container's own primitive refuses an index outside the container.
sp_playlistcontainer_move_playlist(list, size, from_index, to_index) ==
    IF from_index \in 0..(size - 1) /\ to_index \in 0..(size - 1)
    THEN move_playlist(list, size, from_index, to_index)
    ELSE list

----------------------------------------------------------------------------
(* sort_playlists *)

Enter(c) ==
    /\ container = Numbered(c)
    /\ moves = <<>>
    /\ pc = "scan"
    /\ i = 0
    /\ num_playlists = Cardinality(DOMAIN c)
    /\ not_loaded = 0
    /\ items = NULL
    /\ parent = NULL
    /\ previous = NULL
    /\ nodes = <<>>
    /\ reorder = <<>>

Init == pass = 1 /\ \E c \in Containers : Enter(c)

InitPerm == pass = 1 /\ \E c \in PermContainers : Enter(c)

Scanning(type) ==
    /\ pc = "scan"
    /\ i < num_playlists
    /\ container[i].type = type

ScanPlaylist ==
    /\ Scanning("PLAYLIST")
    /\ IF ~container[i].loaded
       THEN /\ not_loaded' = not_loaded + 1
            /\ UNCHANGED <<nodes, previous, items>>
       ELSE /\ nodes' = create_node(nodes, i, previous, parent,
                                    create_playlist_item(i, container[i].name))
            /\ previous' = i
            /\ items' = IF items = NULL THEN i ELSE items
            /\ UNCHANGED not_loaded
    /\ i' = i + 1
    /\ UNCHANGED <<container, moves, pass, pc, num_playlists, parent, reorder>>

ScanStartFolder ==
    /\ Scanning("START_FOLDER")
    /\ nodes' = create_node(nodes, i, previous, parent,
                            create_playlist_item(i, container[i].name))
    /\ parent' = i
    /\ previous' = NULL
    /\ items' = IF items = NULL THEN i ELSE items
    /\ i' = i + 1
    /\ UNCHANGED <<container, moves, pass, pc, num_playlists, not_loaded, reorder>>

ScanEndFolder ==
    /\ Scanning("END_FOLDER")
    /\ parent # NULL
    /\ previous' = parent
    /\ nodes' = [nodes EXCEPT ![parent].item.end_index = i]
    /\ parent' = nodes[parent].parent
    /\ i' = i + 1
    /\ UNCHANGED <<container, moves, pass, pc, num_playlists, not_loaded, items,
                   reorder>>

\* previous->item with previous == NULL: the process dies on the access.
ScanEndFolderNull ==
    /\ Scanning("END_FOLDER")
    /\ parent = NULL
    /\ pc' = "crashed"
    /\ previous' = parent
    /\ UNCHANGED <<container, moves, pass, i, num_playlists, not_loaded, items,
                   parent, nodes, reorder>>

ScanPlaceholder ==
    /\ Scanning("PLACEHOLDER")
    /\ i' = i + 1
    /\ UNCHANGED <<container, moves, pass, pc, num_playlists, not_loaded, items,
                   parent, previous, nodes, reorder>>

\* The end of the scan without the test of not_loaded.
ScanDoneUnchecked ==
    /\ pc = "scan"
    /\ i = num_playlists
    /\ pc' = IF items # NULL THEN "sort" ELSE "done"
    /\ UNCHANGED <<container, moves, pass, i, num_playlists, not_loaded, items,
                   parent, previous, nodes, reorder>>

ScanDone ==
    /\ pc = "scan"
    /\ i = num_playlists
    /\ pc' = IF not_loaded > 0 THEN "done"
             ELSE IF items # NULL THEN "sort"
             ELSE "done"
    /\ UNCHANGED <<container, moves, pass, i, num_playlists, not_loaded, items,
                   parent, previous, nodes, reorder>>

Sort ==
    /\ pc = "sort"
    /\ LET r == sort_list(nodes, items)
       IN  /\ nodes' = r.h
           /\ items' = r.head
    /\ pc' = "flatten"
    /\ UNCHANGED <<container, moves, pass, i, num_playlists, not_loaded, parent,
                   previous, reorder>>

Unwritten == Len(flatten_writes(nodes, items))..(num_playlists - 1)

Flatten ==
    /\ pc = "flatten"
    /\ Len(flatten_writes(nodes, items)) <= num_playlists
    /\ \E garbage \in [Unwritten -> GarbageVals] :
          reorder' = flatten_list(nodes, items, num_playlists, garbage)
    /\ i' = 0
    /\ pc' = "move"
    /\ UNCHANGED <<container, moves, pass, num_playlists, not_loaded, items, parent,
                   previous, nodes>>

\* _flatten_list stores past the end of reorder: the store lands in the
\* allocator's slack and the pass goes on, or the process dies.
FlattenOverflow ==
    /\ pc = "flatten"
    /\ Len(flatten_writes(nodes, items)) > num_playlists
    /\ reorder' = flatten_list(nodes, items, num_playlists, <<>>)
    /\ i' = 0
    /\ pc' \in {"move", "crashed"}
    /\ UNCHANGED <<container, moves, pass, num_playlists, not_loaded, items, parent,
                   previous, nodes>>

MoveStep ==
    /\ pc = "move"
    /\ i < num_playlists
    /\ i # reorder[i]
    /\ moves' = Append(moves, <<reorder[i], i>>)
    /\ container' = sp_playlistcontainer_move_playlist(container, num_playlists,
                                                       reorder[i], i)
    /\ reorder' = recalculate_indexes(reorder, num_playlists, i)
    /\ i' = i + 1
    /\ UNCHANGED <<pass, pc, num_playlists, not_loaded, items, parent, previous,
                   nodes>>

SkipStep ==
    /\ pc = "move"
    /\ i < num_playlists
    /\ i = reorder[i]
    /\ i' = i + 1
    /\ UNCHANGED <<container, moves, pass, pc, num_playlists, not_loaded, items,
                   parent, previous, nodes, reorder>>

MoveDone ==
    /\ pc = "move"
    /\ i = num_playlists
    /\ pc' = "free"
    /\ UNCHANGED <<container, moves, pass, i, num_playlists, not_loaded, items,
                   parent, previous, nodes, reorder>>

\* free(reorder); free_list(items); return 1.
Free ==
    /\ pc = "free"
    /\ reorder' = <<>>
    /\ nodes' = <<>>
    /\ pc' = "done"
    /\ UNCHANGED <<container, moves, pass, i, num_playlists, not_loaded, items,
                   parent, previous>>

\* The program is run again on the container as the last run left it.
Rerun ==
    /\ pc = "done"
    /\ pass + 1 \in Passes
    /\ pass' = pass + 1
    /\ container' = Numbered(container)
    /\ moves' = <<>>
    /\ pc' = "scan"
    /\ i' = 0
    /\ num_playlists' = Cardinality(DOMAIN container)
    /\ not_loaded' = 0
    /\ items' = NULL
    /\ parent' = NULL
    /\ previous' = NULL
    /\ nodes' = <<>>
    /\ reorder' = <<>>

Next ==
    \/ ScanPlaylist
    \/ ScanStartFolder
    \/ ScanEndFolder
    \/ ScanEndFolderNull
    \/ ScanPlaceholder
    \/ ScanDone
    \/ Sort
    \/ Flatten
    \/ FlattenOverflow
    \/ MoveStep
    \/ SkipStep
    \/ MoveDone
    \/ Free
    \/ Rerun

Spec == Init /\ [][Next]_vars

NextPerm ==
    \/ ScanPlaylist
    \/ ScanDone
    \/ Sort
    \/ Flatten
    \/ MoveStep
    \/ SkipStep
    \/ MoveDone
    \/ Free

SpecPerm == InitPerm /\ [][NextPerm]_vars

----------------------------------------------------------------------------
(* What the claims speak about *)

\* The container as it was when the pass started.
Original == [k \in DOMAIN container |-> CHOOSE e \in {container[j] : j \in DOMAIN container} : e.id = k]

Size(c) == Cardinality(DOMAIN c)

Count(c, type, k) == Cardinality({j \in DOMAIN c : j < k /\ c[j].type = type})

\* Folder markers properly nested: never more ends than starts, all closed.
Balanced(c) ==
    /\ \A k \in 0..Size(c) : Count(c, "END_FOLDER", k) <= Count(c, "START_FOLDER", k)
    /\ Count(c, "END_FOLDER", Size(c)) = Count(c, "START_FOLDER", Size(c))

HasPlaceholder(c) == \E k \in DOMAIN c : c[k].type = "PLACEHOLDER"

\* No folder whose end marker follows its start marker with nothing but
\* placeholders between them.
NoEmptyFolder(c) ==
    \A k, l \in DOMAIN c :
        (k < l /\ c[k].type = "START_FOLDER" /\ c[l].type = "END_FOLDER")
            => \E m \in (k + 1)..(l - 1) : c[m].type # "PLACEHOLDER"

AllLoadedPlaylists(c) == \A k \in DOMAIN c : c[k].type = "PLAYLIST" /\ c[k].loaded

Named(c) == {k \in DOMAIN c : c[k].type \in {"PLAYLIST", "START_FOLDER"}}

DistinctNames(c) == \A k, l \in Named(c) : c[k].name = c[l].name => k = l

NonPlaceholders(c) == {k \in DOMAIN c : c[k].type # "PLACEHOLDER"}

\* The nodes of a sibling list, following next.
RECURSIVE Chain(_, _)
Chain(h, head) == IF head = NULL THEN <<>> ELSE <<head>> \o Chain(h, h[head].next)

\* The root list and the child list of every folder.
SiblingLists ==
    {Chain(nodes, items)}
        \cup {Chain(nodes, nodes[n].children) : n \in {m \in DOMAIN nodes : nodes[m].children # NULL}}

NameOf(n) == nodes[n].item.name

\* The target permutation: what flatten_list stores for the sorted tree.
Target == flatten_writes(nodes, items)

Identity(n) == [k \in 0..(n - 1) |-> k]

\* The arrangements of n items that at most m single moves produce.
RECURSIVE Within(_, _)
Within(m, n) ==
    IF m < 0 THEN {}
    ELSE IF m = 0 THEN {Identity(n)}
    ELSE LET S == Within(m - 1, n)
         IN  S \cup {move_playlist(a, n, f, t) : a \in S, f \in 0..(n - 1), t \in 0..(n - 1)}

----------------------------------------------------------------------------
(* Claims *)

\* C1: once the move loop has ended, slot k of the container holds the entry
\* that was at position T[k] when the pass started, for every k, T being the
\* target permutation.
MoveCorrect ==
    pc = "free" => \A k \in 0..(num_playlists - 1) : container[k].id = Target[k + 1]

MoveCorrectWitness ==
    /\ pc = "free"
    /\ num_playlists >= 4
    /\ Len(moves) >= 3
    /\ \A k \in 0..(num_playlists - 1) : container[k].id = Target[k + 1]

\* C2: after sort_list, for a balanced container, the names of consecutive
\* siblings are non-decreasing in strcmp order in the root list and in the
\* child list of every folder.
SortCorrect ==
    (pc = "flatten" /\ Balanced(container))
        => \A s \in SiblingLists :
              \A p \in 1..(Len(s) - 1) : strcmp(NameOf(s[p]), NameOf(s[p + 1])) <= 0

\* A folder whose two children were scanned in descending order of name and
\* now stand in ascending order.
SortCorrectWitness ==
    /\ pc = "flatten"
    /\ Balanced(container)
    /\ \E s \in SiblingLists :
          /\ s # Chain(nodes, items)
          /\ Len(s) >= 2
          /\ s[1] > s[2]
          /\ strcmp(NameOf(s[1]), NameOf(s[2])) < 0

\* C3: after sort_list, two siblings with equal names stand in the order of
\* their original positions.
SortStable ==
    pc = "flatten"
        => \A s \in SiblingLists :
              \A p, q \in 1..Len(s) :
                  (p < q /\ NameOf(s[p]) = NameOf(s[q]))
                      => nodes[s[p]].item.index < nodes[s[q]].item.index

\* C4: for a balanced container, flatten_list stores every position that is
\* not a placeholder exactly once, and nothing else.
FlattenPermutation ==
    (pc = "move" /\ Balanced(Original))
        => /\ Len(Target) = Cardinality(NonPlaceholders(Original))
           /\ {Target[k] : k \in 1..Len(Target)} = NonPlaceholders(Original)

\* C5: a second run on the result of the first computes the identity target
\* and makes no move.  Stated for containers of loaded playlists, where
\* flatten_list fills the whole of reorder.
Idempotent ==
    (pass = 2 /\ pc = "free" /\ AllLoadedPlaylists(container))
        => /\ moves = <<>>
           /\ \A k \in 1..Len(Target) : Target[k] = k - 1

\* C6, as claimed: no sequence of fewer single moves than the pass made turns
\* the original order into the target.
MoveMinimal ==
    pc = "free"
        => [k \in 0..(num_playlists - 1) |-> Target[k + 1]]
               \notin Within(Len(moves) - 1, num_playlists)

\* The slots whose target is not the smallest of the targets from there on.
NotSmallestLeft(t) == {k \in 1..Len(t) : \E l \in (k + 1)..Len(t) : t[l] < t[k]}

\* C6, amended: the pass makes one move for every slot k whose target T[k] is
\* not the smallest of T[k..M-1], no other move, and never moves an entry onto
\* the slot it is in.
MoveCount ==
    pc = "free"
        => /\ Len(moves) = Cardinality(NotSmallestLeft(Target))
           /\ \A m \in 1..Len(moves) : moves[m][1] # moves[m][2]

\* Target 1,2,3,0: three moves are made where moving entry 0 to the end does.
MoveCountWitness ==
    /\ pc = "free"
    /\ Target = <<1, 2, 3, 0>>
    /\ Len(moves) = 3
    /\ [k \in 0..3 |-> Target[k + 1]] \in Within(1, 4)

\* C7: while some playlist of the container is not loaded, the move primitive
\* has not been called and the container is as it was.
NotReadyNoMoves ==
    (\E k \in DOMAIN container : container[k].type = "PLAYLIST" /\ ~container[k].loaded)
        => /\ moves = <<>>
           /\ \A k \in DOMAIN container : container[k].id = k

\* The pass has returned with not_loaded > 0 although loaded playlists were
\* scanned out of order.
NotReadyNoMovesWitness ==
    /\ pc = "done"
    /\ not_loaded > 0
    /\ moves = <<>>
    /\ \E k, l \in DOMAIN nodes :
          k < l /\ nodes[k].next = l /\ strcmp(NameOf(k), NameOf(l)) > 0

\* C8: for a container whose folder markers are not balanced the move
\* primitive is never called.  Stated for the runs in which no two names are
\* equal and every store of flatten_list falls inside reorder.
UnbalancedNoMoves ==
    (/\ pc = "move"
     /\ ~Balanced(Original)
     /\ DistinctNames(Original)
     /\ Len(Target) <= num_playlists)
        => moves = <<>>

\* C9: for a balanced container with placeholders (and no empty folder), only
\* the slots flatten_list wrote are examined by the move loop.
PlaceholderSlots ==
    (/\ pc = "move"
     /\ i < num_playlists
     /\ HasPlaceholder(Original)
     /\ Balanced(Original)
     /\ NoEmptyFolder(Original))
        => i < Len(Target)

\* C10, the state part: when slot i is to be processed, reorder[i..M-1] are
\* pairwise different values of i..M-1, and every move made went to a smaller
\* index from an index inside the container.
MoveLoopState ==
    pc = "move"
        => /\ \A j \in i..(num_playlists - 1) : reorder[j] \in i..(num_playlists - 1)
           /\ \A j, k \in i..(num_playlists - 1) : j # k => reorder[j] # reorder[k]
           /\ \A m \in 1..Len(moves) :
                 moves[m][2] < moves[m][1] /\ moves[m][1] < num_playlists

\* C10, the step part: the move for slot i leaves slots 0..i-1 as they are.
MoveLoopStep ==
    moves' # moves => \A k \in 0..(i - 1) : container'[k] = container[k]

\* C10: the invariant of the move loop.
MoveLoopInvariant == [](MoveLoopState) /\ [][MoveLoopStep]_vars

MoveLoopInvariantWitness ==
    /\ pc = "move"
    /\ i >= 2
    /\ i < num_playlists
    /\ Len(moves) >= 2
    /\ reorder[i] # i

====
